---- MODULE Spec2Model ----
(***************************************************************************)
(* Model of examples/triangle/main.rs: the winit ApplicationHandler `App`  *)
(* (resumed, window_event, about_to_wait) and the per-frame procedure of   *)
(* the RedrawRequested arm, with the swapchain life cycle.                 *)
(*                                                                         *)
(* The RedrawRequested arm is modelled as a chain of steps guarded by pc;  *)
(* no other handler runs while pc # "idle" (the event loop is single       *)
(* threaded), so the steps of one handler are never interleaved with       *)
(* another handler.  Only the GPU and the OS window act concurrently.      *)
(*                                                                         *)
(* Results of calls into the driver (acquire_next_image, recreate, the     *)
(* flush of the future chain, the image count and index the driver picks)  *)
(* are inputs, drawn with \E from the outcomes the code distinguishes.     *)
(* Rust indexes from 0, TLA+ sequences from 1: framebuffers[i] of the      *)
(* source is framebuffers[i + 1] here.                                     *)
(*                                                                         *)
(* Spec is the event loop with every handler.  LiveSpec adds fair event    *)
(* delivery.  SpecRebuild follows the swapchain's create-info over         *)
(* rebuilds on any surface, SpecGpu the GPU's side of the future chain     *)
(* frame by frame, SpecDevice the choice of the physical device in         *)
(* App::new.                                                               *)
(***************************************************************************)
EXTENDS Integers, Sequences, FiniteSets, TLC

\* ------------------------------------------------------------------ bounds
\* Window widths range over 0..MaxWidth; a height is 0 (minimised) or MaxHeight.
MaxWidth == 2
MaxHeight == 1
\* surface_capabilities.min_image_count ranges over 1..MaxSurfaceMinImages.
MaxSurfaceMinImages == 2
\* The driver creates min_image_count .. min_image_count + MaxExtraImages images.
MaxExtraImages == 0
\* Frames whose GPU work is unfinished: acquire_next_image blocks beyond it.
MaxInFlight == 1
\* resized_since counts up to MaxResizedBurst and stays there.
MaxResizedBurst == 2
\* surface_formats returns 1..MaxSurfaceFormats formats (SpecRebuild).
MaxSurfaceFormats == 2
\* The driver's extra images in SpecRebuild: 0..MaxExtraImagesRebuild.
MaxExtraImagesRebuild == 1
\* The driver's extra images in SpecGpu: 0..MaxExtraImagesGpu.
MaxExtraImagesGpu == 1
\* enumerate_physical_devices yields up to MaxDevices devices (SpecDevice).
MaxDevices == 2
\* A physical device has up to MaxQueueFamilies queue families (SpecDevice).
MaxQueueFamilies == 2
\* The largest min_image_count a surface reports in SpecSurface.
MaxSurfaceMinImagesSurface == 3

Extents == (0..MaxWidth) \X {0, MaxHeight}

VARIABLES
    \* --- fields of App (main.rs:50-64)
    window,              \* Option<Arc<Window>>: "None" | "Some"
    swapchain,           \* Option<Arc<Swapchain>>: NoSwapchain or a record
    render_pass,         \* Option<Arc<RenderPass>>: "None" | "Some"
    pipeline,            \* Option<Arc<GraphicsPipeline>>: "None" | "Some"
    framebuffers,        \* Vec<Arc<Framebuffer>>
    viewport,            \* Viewport: [offset, extent]
    recreate_swapchain,  \* bool
    previous_frame_end,  \* Option<Box<dyn GpuFuture>>: "None" | "Now" | "Fence"
    \* --- position and locals of window_event's RedrawRequested arm
    pc,                  \* "idle" between handlers, else the next step
    image_extent,        \* let image_extent (main.rs:602)
    acquire_result,      \* which arm of the acquire match ran (main.rs:648-655)
    image_index,         \* acquire result (main.rs:647)
    suboptimal,          \* acquire result (main.rs:647)
    acquired_from,       \* the swapchain passed to acquire_next_image (main.rs:648)
    command_buffer,      \* what builder.end() recorded (main.rs:674-734)
    presented,           \* SwapchainPresentInfo handed to then_swapchain_present
    \* --- the environment: OS window, event loop, GPU
    inner_size,          \* window.inner_size()
    redraw_requested,    \* a RedrawRequested is due (request_redraw)
    exiting,             \* event_loop.exit() was called
    frames_held,         \* frames the future chain still retains
    frames_done,         \* of those, frames the GPU has finished
    \* --- observation of the running (or last) handler
    handler,             \* which handler runs or ran last
    ops,                 \* the calls it has made so far, in order
    resized_since,       \* Resized events handled since the last redraw that
                         \* got past the zero-extent guard (saturating)
    resized_before,      \* its value when the running redraw began
    minimized_since,     \* a redraw was skipped for a zero extent since the
                         \* last redraw that got past the zero-extent guard
    minimized_before,    \* its value when the running redraw began
    \* --- observation kept by the secondary specifications only
    first_swapchain,     \* the swapchain App::resumed created (SpecRebuild)
    surface_capabilities, \* what the surface reported to App::resumed
                         \* (main.rs:325-331) (SpecSurface)
    timeline,            \* the frames the future chain holds, oldest first,
                         \* each with the GPU operations done and to do (SpecGpu)
    enumerated,          \* the physical devices enumerated so far: for each,
                         \* its type and whether it is eligible (SpecDevice)
    selected,            \* min_by_key's best (physical_device,
                         \* queue_family_index) so far (SpecDevice)
    selection            \* "unobserved" | "running" | "done" | "panicked"

vars == << window, swapchain, render_pass, pipeline, framebuffers, viewport,
           recreate_swapchain, previous_frame_end, pc, image_extent,
           image_index, suboptimal, acquired_from, command_buffer, presented,
           inner_size, redraw_requested, exiting,
           frames_held, frames_done, handler, ops, resized_since,
           resized_before, acquire_result, minimized_since,
           minimized_before, first_swapchain, timeline, enumerated,
           selected, selection, surface_capabilities >>

app_fields == << window, swapchain, render_pass, pipeline, framebuffers,
                 viewport, recreate_swapchain, previous_frame_end >>
locals == << image_extent, acquire_result, image_index, suboptimal,
             acquired_from, command_buffer, presented >>
observed == << handler, ops, resized_since, resized_before,
              minimized_since, minimized_before >>

gpu == << frames_held, frames_done >>

\* What only the secondary specifications write; Spec leaves it alone.
device_aux == << enumerated, selected, selection >>
aux == << first_swapchain, timeline, device_aux, surface_capabilities >>

NoSwapchain ==
    [id |-> -1, min_image_count |-> 0, image_format |-> "none",
     image_extent |-> << 0, 0 >>, image_usage |-> {}, composite_alpha |-> "none",
     image_count |-> 0]
\* surface_capabilities before resumed has asked for them.
NoSurface == [min_image_count |-> 0, formats |-> << >>, supported_composite_alpha |-> {}]

NoCommandBuffer == [recorded |-> FALSE]
NoPresent == [issued |-> FALSE]

\* ----------------------------------------------------------------- helpers

\* u32 -> f32 (`extent[0] as f32`, main.rs:796): round to nearest, ties to
\* even, on a 24-bit significand.  Exact below 2^24.
AsF32(n) ==
    IF n < 16777216 THEN n
    ELSE LET k == CHOOSE j \in 1..8 : n < 16777216 * (2 ^ j) /\ n >= 8388608 * (2 ^ j)
             ulp == 2 ^ k
             q == n \div ulp
             r == n % ulp
         IN  IF 2 * r < ulp THEN q * ulp
             ELSE IF 2 * r > ulp THEN (q + 1) * ulp
             ELSE IF q % 2 = 0 THEN q * ulp ELSE (q + 1) * ulp

\* image_extent.contains(&0) (main.rs:604)
ContainsZero(e) == e[1] = 0 \/ e[2] = 0

\* The images a swapchain owns: image i of swapchain sc, with the extent of
\* its create-info.
Images(sc) ==
    [i \in 1..sc.image_count |->
        [swapchain |-> sc.id, index |-> i - 1, extent |-> sc.image_extent,
         format |-> sc.image_format]]

\* A handle that differs from every handle still alive.
NewId(used) == CHOOSE g \in 0..Cardinality(used) : g \notin used

\* The swapchains still alive: those the App's fields refer to and those the
\* frames held by the future chain refer to (main.rs:272-273).
LiveIds ==
    {swapchain.id}
    \cup {framebuffers[i].image.swapchain : i \in DOMAIN framebuffers}
    \cup {timeline[i].command_buffer.framebuffer.image.swapchain : i \in DOMAIN timeline}

\* window_size_dependent_setup (main.rs:790-812): one framebuffer per image,
\* and the viewport extent set from the first image.
FramebuffersOf_Stale(images) ==
    IF framebuffers = << >>
    THEN [i \in DOMAIN images |-> [image |-> images[i]]]
    ELSE framebuffers

FramebuffersOf(images) == [i \in DOMAIN images |-> [image |-> images[i]]]

ViewportOf_Stale(images, old) == old

ViewportOf(images, old) ==
    [old EXCEPT !.extent = << AsF32(images[1].extent[1]), AsF32(images[1].extent[2]) >>]

\* A create-info that takes the surface's min_image_count as it is.
MinImageCount_AsReported(surface_min) == surface_min

\* surface_capabilities.min_image_count.max(2) (main.rs:349)
MinImageCount(surface_min) == IF surface_min > 2 THEN surface_min ELSE 2

Count(s, x) == Cardinality({i \in DOMAIN s : s[i] = x})

\* ------------------------------------------------------------------- Init
\* No (physical_device, queue_family_index) pair yet.
NoSelection == [position |-> 0]

\* App::new (main.rs:246-300): the fields and the environment
InitApp ==
    /\ window = "None"
    /\ swapchain = NoSwapchain
    /\ render_pass = "None"
    /\ pipeline = "None"
    /\ framebuffers = << >>
    /\ viewport = [offset |-> << 0, 0 >>, extent |-> << 0, 0 >>]
    /\ recreate_swapchain = FALSE
    /\ previous_frame_end = "Now"
    /\ pc = "idle"
    /\ image_extent = << 0, 0 >>
    /\ image_index = 0
    /\ suboptimal = FALSE
    /\ acquired_from = -1
    /\ command_buffer = NoCommandBuffer
    /\ presented = NoPresent
    /\ inner_size = << 0, 0 >>
    /\ redraw_requested = FALSE
    /\ exiting = FALSE
    /\ frames_held = 0
    /\ frames_done = 0
    /\ handler = "new"
    /\ ops = << >>
    /\ resized_since = 0
    /\ resized_before = 0
    /\ acquire_result = "none"
    /\ minimized_since = FALSE
    /\ minimized_before = FALSE
    /\ first_swapchain = NoSwapchain
    /\ timeline = << >>
    /\ surface_capabilities = NoSurface

\* The state after App::new; how it chose the device is followed by
\* SpecDevice only.
Init ==
    /\ InitApp
    /\ enumerated = << >>
    /\ selected = NoSelection
    /\ selection = "unobserved"


\* The locals of a window_event invocation before the RedrawRequested arm
\* assigns them.
UnsetLocals ==
    /\ acquire_result' = "none"
    /\ image_index' = 0
    /\ suboptimal' = FALSE
    /\ acquired_from' = -1
    /\ command_buffer' = NoCommandBuffer
    /\ presented' = NoPresent

\* ------------------------------------------------------- the environment

\* The OS changes the window's inner size (0 in a dimension: minimised).  The
\* Resized event it sends is handled later, at any time between two handlers.
\* A handler reads inner_size once, on entry (main.rs:602), so a change while
\* a handler runs is the same change made right after it returns.
OsResize(new) ==
    /\ pc = "idle"
    /\ window = "Some"
    /\ ~exiting
    /\ inner_size' = new
    /\ UNCHANGED << app_fields, pc, locals, redraw_requested, exiting, gpu, observed >>

\* The GPU finishes the oldest unfinished frame of the queue.
GpuFinish ==
    /\ pc # "panicked"
    /\ frames_done < frames_held
    /\ frames_done' = frames_done + 1
    /\ UNCHANGED << app_fields, pc, locals, inner_size, redraw_requested,
                    exiting, frames_held, observed >>

\* ------------------------------------------------------------ App::resumed

\* CompositeAlphas in the order supported_composite_alpha.into_iter() yields
\* them (main.rs:373-377).
CompositeAlphaOrder == << "Opaque", "PreMultiplied", "PostMultiplied", "Inherit" >>

\* supported_composite_alpha.into_iter().next().unwrap() (main.rs:373-377)
FirstCompositeAlpha(supported) ==
    CompositeAlphaOrder[CHOOSE i \in DOMAIN CompositeAlphaOrder :
        /\ CompositeAlphaOrder[i] \in supported
        /\ \A j \in 1..(i - 1) : CompositeAlphaOrder[j] \notin supported]

\* Swapchain::new with the create-info of main.rs:341-383, on a surface with
\* the given capabilities and formats; the driver creates extra images above
\* min_image_count.
SwapchainNew(size, surface, extra) ==
    [id |-> NewId({}),
     min_image_count |-> MinImageCount(surface.min_image_count),
     image_format |-> surface.formats[1],
     image_extent |-> size,
     image_usage |-> {"COLOR_ATTACHMENT"},
     composite_alpha |-> FirstCompositeAlpha(surface.supported_composite_alpha),
     image_count |-> MinImageCount(surface.min_image_count) + extra]

\* A surface that reports min_image_count = surface_min; no handler reads the
\* format or the composite alpha, and Spec fixes them.
SurfaceWith(surface_min) ==
    [min_image_count |-> surface_min,
     formats |-> << "B8G8R8A8_UNORM" >>,
     supported_composite_alpha |-> {"Opaque"}]

\* The surfaces SpecRebuild starts from: surface_capabilities and
\* surface_formats as the driver may report them (main.rs:325-338).
Formats == {"B8G8R8A8_UNORM", "B8G8R8A8_SRGB"}
Surfaces ==
    [min_image_count : 1..MaxSurfaceMinImages,
     formats : UNION {[1..n -> Formats] : n \in 1..MaxSurfaceFormats},
     supported_composite_alpha :
        (SUBSET {CompositeAlphaOrder[i] : i \in DOMAIN CompositeAlphaOrder}) \ {{}}]

\* App::resumed (main.rs:307-577).  The window is created with a non-zero
\* default size; the surface reports its capabilities and formats; the driver
\* creates extra images above the requested minimum.
resumed(size, surface, extra) ==
    /\ pc = "idle"
    /\ ~exiting
    /\ window = "None"
    /\ window' = "Some"
    /\ inner_size' = size
    /\ swapchain' = SwapchainNew(size, surface, extra)
    /\ render_pass' = "Some"
    /\ pipeline' = "Some"
    /\ framebuffers' = FramebuffersOf(Images(swapchain'))
    /\ viewport' = ViewportOf(Images(swapchain'), viewport)
    /\ redraw_requested' = TRUE
    /\ handler' = "resumed"
    /\ ops' = << "Swapchain::new", "window_size_dependent_setup" >>
    /\ UNCHANGED << recreate_swapchain, previous_frame_end, pc, locals,
                    exiting, gpu, resized_since, minimized_since, resized_before, minimized_before >>

\* ------------------------------------------------- App::window_event arms

\* swapchain.recreate(SwapchainCreateInfo { image_extent, ..create_info })
\* (main.rs:620-624): the create-info is kept but for image_extent; the
\* driver picks the image count again.
Recreate_KeepExtent(sc, extent, extra, id) ==
    [sc EXCEPT !.id = id,
               !.image_count = sc.min_image_count + extra]

\* A rebuild from a default create-info instead of the old swapchain's.
Recreate_DefaultInfo(sc, extent, extra, id) ==
    [sc EXCEPT !.id = id,
               !.image_extent = extent,
               !.composite_alpha = "Opaque",
               !.image_count = sc.min_image_count + extra]

Recreate(sc, extent, extra, id) ==
    [sc EXCEPT !.id = id,
               !.image_extent = extent,
               !.image_count = sc.min_image_count + extra]

\* WindowEvent::CloseRequested (main.rs:593-595)
CloseRequested ==
    /\ pc = "idle"
    /\ window = "Some"
    /\ exiting' = TRUE
    /\ handler' = "CloseRequested"
    /\ ops' = << >>
    /\ resized_before' = 0
    /\ minimized_before' = FALSE
    /\ image_extent' = << 0, 0 >>
    /\ UnsetLocals
    /\ UNCHANGED << app_fields, pc, inner_size, redraw_requested, gpu, resized_since, minimized_since >>

Saturating(n) == IF n < MaxResizedBurst THEN n + 1 ELSE n

\* A Resized arm that rebuilds at once instead of setting the flag.
Resized_Eager ==
    /\ pc = "idle"
    /\ window = "Some"
    /\ ~ContainsZero(inner_size)
    /\ swapchain' = Recreate(swapchain, inner_size, 0, NewId(LiveIds))
    /\ framebuffers' = FramebuffersOf(Images(swapchain'))
    /\ viewport' = ViewportOf(Images(swapchain'), viewport)
    /\ handler' = "Resized"
    /\ ops' = << "recreate", "window_size_dependent_setup" >>
    /\ resized_since' = Saturating(resized_since)
    /\ UNCHANGED minimized_since
    /\ resized_before' = 0
    /\ minimized_before' = FALSE
    /\ image_extent' = << 0, 0 >>
    /\ UnsetLocals
    /\ UNCHANGED << window, render_pass, pipeline, recreate_swapchain,
                    previous_frame_end, pc, inner_size, redraw_requested,
                    exiting, gpu >>

\* A Resized arm that does not set the flag.
Resized_NoFlag ==
    /\ pc = "idle"
    /\ window = "Some"
    /\ handler' = "Resized"
    /\ ops' = << >>
    /\ resized_since' = Saturating(resized_since)
    /\ UNCHANGED minimized_since
    /\ resized_before' = 0
    /\ minimized_before' = FALSE
    /\ image_extent' = << 0, 0 >>
    /\ UnsetLocals
    /\ UNCHANGED << app_fields, pc, inner_size, redraw_requested, exiting, gpu >>

\* A Resized handler that also starts a new future chain, as the OutOfDate
\* arm of the flush match does.
Resized_ResetsChain ==
    /\ pc = "idle"
    /\ window = "Some"
    /\ recreate_swapchain' = TRUE
    /\ previous_frame_end' = "Now"
    /\ frames_held' = 0
    /\ frames_done' = 0
    /\ handler' = "Resized"
    /\ ops' = << >>
    /\ resized_since' = Saturating(resized_since)
    /\ UNCHANGED minimized_since
    /\ resized_before' = 0
    /\ minimized_before' = FALSE
    /\ image_extent' = << 0, 0 >>
    /\ UnsetLocals
    /\ UNCHANGED << window, swapchain, render_pass, pipeline, framebuffers,
                    viewport, pc, inner_size, redraw_requested, exiting >>

\* WindowEvent::Resized (main.rs:596-598)
Resized ==
    /\ pc = "idle"
    /\ window = "Some"
    /\ recreate_swapchain' = TRUE
    /\ handler' = "Resized"
    /\ ops' = << >>
    /\ resized_since' = Saturating(resized_since)
    /\ UNCHANGED minimized_since
    /\ resized_before' = 0
    /\ minimized_before' = FALSE
    /\ image_extent' = << 0, 0 >>
    /\ UnsetLocals
    /\ UNCHANGED << window, swapchain, render_pass, pipeline, framebuffers,
                    viewport, previous_frame_end, pc, inner_size,
                    redraw_requested, exiting, gpu >>

\* An about_to_wait that does not request a redraw.
about_to_wait_NoRequest ==
    /\ pc = "idle"
    /\ window = "Some"
    /\ handler' = "about_to_wait"
    /\ ops' = << >>
    /\ resized_before' = 0
    /\ minimized_before' = FALSE
    /\ image_extent' = << 0, 0 >>
    /\ UnsetLocals
    /\ UNCHANGED << app_fields, pc, inner_size, redraw_requested, exiting, gpu,
                    resized_since, minimized_since >>

\* App::about_to_wait (main.rs:775-777)
about_to_wait ==
    /\ pc = "idle"
    /\ window = "Some"
    /\ redraw_requested' = TRUE
    /\ handler' = "about_to_wait"
    /\ ops' = << >>
    /\ resized_before' = 0
    /\ minimized_before' = FALSE
    /\ image_extent' = << 0, 0 >>
    /\ UnsetLocals
    /\ UNCHANGED << app_fields, pc, inner_size, exiting, gpu, resized_since, minimized_since >>

\* if image_extent.contains(&0) { return; } (main.rs:604-606): where the
\* handler goes next.
ZeroExtentGuard_Missing(e) == "cleanup"

ZeroExtentGuard(e) == IF ContainsZero(e) THEN "idle" ELSE "cleanup"

\* WindowEvent::RedrawRequested, entry and zero-extent guard (main.rs:599-606)
RedrawRequested ==
    /\ pc = "idle"
    /\ window = "Some"
    /\ redraw_requested
    /\ redraw_requested' = FALSE
    /\ handler' = "RedrawRequested"
    /\ ops' = << >>
    /\ image_extent' = inner_size
    /\ UnsetLocals
    /\ pc' = ZeroExtentGuard(inner_size)
    /\ IF pc' = "idle"
       THEN /\ resized_before' = 0
            /\ UNCHANGED resized_since
            /\ minimized_before' = FALSE
            /\ minimized_since' = TRUE
       ELSE /\ resized_before' = resized_since
            /\ resized_since' = 0
            /\ minimized_before' = minimized_since
            /\ minimized_since' = FALSE
    /\ UNCHANGED << app_fields, inner_size, exiting, gpu >>

\* A redraw that goes on to the rebuild without calling cleanup_finished.
CleanupFinished_Skipped ==
    /\ pc = "cleanup"
    /\ pc' = "recreate"
    /\ UNCHANGED << app_fields, locals, inner_size, redraw_requested, exiting,
                    gpu, observed >>

\* previous_frame_end.as_mut().unwrap().cleanup_finished() (main.rs:612):
\* the chain lets go of the frames the GPU has finished.
CleanupFinished ==
    /\ pc = "cleanup"
    /\ IF previous_frame_end = "None"
       THEN /\ pc' = "panicked"
            /\ UNCHANGED << gpu, ops >>
       ELSE /\ frames_held' = frames_held - frames_done
            /\ frames_done' = 0
            /\ ops' = Append(ops, "cleanup_finished")
            /\ pc' = "recreate"
    /\ UNCHANGED << app_fields, locals, inner_size, redraw_requested, exiting,
                    handler, resized_since, minimized_since, resized_before, minimized_before >>

\* self.recreate_swapchain = false (main.rs:637), the last statement of the
\* rebuild.
FlagAfterRecreate_Kept == TRUE

FlagAfterRecreate == FALSE

\* A rebuild that replaces the swapchain and clears the flag but does not call
\* window_size_dependent_setup.
RecreateBranch_NoSetup(ok, extra) ==
    /\ pc = "recreate"
    /\ IF ~recreate_swapchain
       THEN /\ pc' = "acquire"
            /\ UNCHANGED << swapchain, framebuffers, viewport, recreate_swapchain, ops >>
       ELSE IF ~ok
       THEN /\ pc' = "panicked"
            /\ ops' = Append(ops, "recreate")
            /\ UNCHANGED << swapchain, framebuffers, viewport, recreate_swapchain >>
       ELSE /\ swapchain' = Recreate(swapchain, image_extent, extra, NewId(LiveIds))
            /\ recreate_swapchain' = FlagAfterRecreate
            /\ ops' = ops \o << "recreate" >>
            /\ pc' = "acquire"
            /\ UNCHANGED << framebuffers, viewport >>
    /\ UNCHANGED << window, render_pass, pipeline, previous_frame_end, locals,
                    inner_size, redraw_requested, exiting, gpu, handler,
                    resized_since, minimized_since, resized_before, minimized_before >>

\* if self.recreate_swapchain { ... } (main.rs:617-638)
RecreateBranch(ok, extra) ==
    /\ pc = "recreate"
    /\ IF ~recreate_swapchain
       THEN /\ pc' = "acquire"
            /\ UNCHANGED << swapchain, framebuffers, viewport, recreate_swapchain, ops >>
       ELSE IF ~ok
       THEN /\ pc' = "panicked"
            /\ ops' = Append(ops, "recreate")
            /\ UNCHANGED << swapchain, framebuffers, viewport, recreate_swapchain >>
       ELSE /\ swapchain' = Recreate(swapchain, image_extent, extra, NewId(LiveIds))
            /\ framebuffers' = FramebuffersOf(Images(swapchain'))
            /\ viewport' = ViewportOf(Images(swapchain'), viewport)
            /\ recreate_swapchain' = FlagAfterRecreate
            /\ ops' = ops \o << "recreate", "window_size_dependent_setup" >>
            /\ pc' = "acquire"
    /\ UNCHANGED << window, render_pass, pipeline, previous_frame_end, locals,
                    inner_size, redraw_requested, exiting, gpu, handler,
                    resized_since, minimized_since, resized_before, minimized_before >>

\* The results acquire_next_image can give on swapchain sc.
AcquireResults(sc) ==
    [kind : {"Ok"}, image_index : 0..(sc.image_count - 1), suboptimal : BOOLEAN]
    \cup {[kind |-> "OutOfDate"], [kind |-> "Other"]}

\* The acquire match (main.rs:648-655): where the handler goes next.
AcquireMatch_NoReturn(r) ==
    CASE r.kind = "Ok" -> "record"
      [] r.kind = "OutOfDate" -> "record"
      [] OTHER -> "panicked"

\* An acquire match that treats every error like OutOfDate.
AcquireMatch_ErrorReturns(r) ==
    CASE r.kind = "Ok" -> "record"
      [] OTHER -> "idle"

AcquireMatch(r) ==
    CASE r.kind = "Ok" -> "record"
      [] r.kind = "OutOfDate" -> "idle"
      [] OTHER -> "panicked"

\* recreate_swapchain after the acquire match and `if suboptimal`
\* (main.rs:650-652, 661-663).
FlagAfterAcquire_OutOfDateOnly(r, flag) ==
    CASE r.kind = "Ok" -> flag
      [] r.kind = "OutOfDate" -> TRUE
      [] OTHER -> flag

\* A flag that is also set when the acquire fails with another error.
FlagAfterAcquire_AnyError(r, flag) ==
    CASE r.kind = "Ok" -> (flag \/ r.suboptimal)
      [] OTHER -> TRUE

FlagAfterAcquire(r, flag) ==
    CASE r.kind = "Ok" -> (flag \/ r.suboptimal)
      [] r.kind = "OutOfDate" -> TRUE
      [] OTHER -> flag

\* acquire_next_image(self.swapchain.clone(), None) (main.rs:647-648) blocks
\* while no image is free: here, while MaxInFlight frames are unfinished.
AcquireBlocked == frames_held - frames_done >= MaxInFlight

\* An acquire whose OutOfDate arm also starts a new future chain, as the
\* OutOfDate arm of the flush match does.
AcquireStep_ResetsChain(r) ==
    /\ pc = "acquire"
    /\ ops' = Append(ops, "acquire_next_image")
    /\ acquired_from' = swapchain.id
    /\ acquire_result' = r.kind
    /\ image_index' = IF r.kind = "Ok" THEN r.image_index ELSE image_index
    /\ suboptimal' = IF r.kind = "Ok" THEN r.suboptimal ELSE suboptimal
    /\ recreate_swapchain' = FlagAfterAcquire(r, recreate_swapchain)
    /\ pc' = AcquireMatch(r)
    /\ previous_frame_end' = IF r.kind = "OutOfDate" THEN "Now" ELSE previous_frame_end
    /\ frames_held' = IF r.kind = "OutOfDate" THEN 0 ELSE frames_held
    /\ frames_done' = IF r.kind = "OutOfDate" THEN 0 ELSE frames_done
    /\ UNCHANGED << window, swapchain, render_pass, pipeline, framebuffers,
                    viewport, image_extent, command_buffer,
                    presented, inner_size, redraw_requested, exiting,
                    handler, resized_since, minimized_since, resized_before, minimized_before >>

\* acquire_next_image returning r, its match, then `if suboptimal`
\* (main.rs:647-663).
AcquireStep(r) ==
    /\ pc = "acquire"
    /\ ops' = Append(ops, "acquire_next_image")
    /\ acquired_from' = swapchain.id
    /\ acquire_result' = r.kind
    /\ image_index' = IF r.kind = "Ok" THEN r.image_index ELSE image_index
    /\ suboptimal' = IF r.kind = "Ok" THEN r.suboptimal ELSE suboptimal
    /\ recreate_swapchain' = FlagAfterAcquire(r, recreate_swapchain)
    /\ pc' = AcquireMatch(r)
    /\ UNCHANGED << window, swapchain, render_pass, pipeline, framebuffers,
                    viewport, previous_frame_end, image_extent, command_buffer,
                    presented, inner_size, redraw_requested, exiting, gpu,
                    handler, resized_since, minimized_since, resized_before, minimized_before >>

AcquireNextImage(r) == ~AcquireBlocked /\ AcquireStep(r)

\* A recording that always begins the render pass on the first framebuffer.
RecordCommandBuffer_FirstFramebuffer ==
    /\ pc = "record"
    /\ IF 1 \in DOMAIN framebuffers /\ pipeline = "Some"
       THEN /\ command_buffer' = [recorded |-> TRUE,
                                  framebuffer |-> framebuffers[1],
                                  viewport |-> viewport]
            /\ ops' = Append(ops, "record")
            /\ pc' = "submit"
       ELSE /\ pc' = "panicked"
            /\ UNCHANGED << command_buffer, ops >>
    /\ UNCHANGED << app_fields, image_extent, acquire_result, image_index,
                    suboptimal, acquired_from, presented, inner_size,
                    redraw_requested, exiting, gpu, handler, resized_since, minimized_since,
                    resized_before, minimized_before >>

\* RecordingCommandBuffer::new ... builder.end() (main.rs:674-734): the render
\* pass begins on framebuffers[image_index] and the viewport is the cached one.
RecordCommandBuffer ==
    /\ pc = "record"
    /\ IF image_index + 1 \in DOMAIN framebuffers /\ pipeline = "Some"
       THEN /\ command_buffer' = [recorded |-> TRUE,
                                  framebuffer |-> framebuffers[image_index + 1],
                                  viewport |-> viewport]
            /\ ops' = Append(ops, "record")
            /\ pc' = "submit"
       ELSE /\ pc' = "panicked"
            /\ UNCHANGED << command_buffer, ops >>
    /\ UNCHANGED << app_fields, image_extent, acquire_result, image_index,
                    suboptimal, acquired_from, presented, inner_size,
                    redraw_requested, exiting, gpu, handler, resized_since, minimized_since,
                    resized_before, minimized_before >>

\* The calls of the future chain (main.rs:736-755), in order.
SubmitCalls_NoPresent == << "then_execute", "then_signal_fence_and_flush" >>

\* A chain that presents the image before the command buffer is executed.
SubmitCalls_PresentFirst ==
    << "then_swapchain_present", "then_execute", "then_signal_fence_and_flush" >>

SubmitCalls ==
    << "then_execute", "then_swapchain_present", "then_signal_fence_and_flush" >>

\* previous_frame_end.take().unwrap().join(..).then_execute(..)
\* .then_swapchain_present(..).then_signal_fence_and_flush() (main.rs:736-755)
SubmitAndPresent ==
    /\ pc = "submit"
    /\ IF previous_frame_end = "None"
       THEN /\ pc' = "panicked"
            /\ UNCHANGED << previous_frame_end, presented, ops >>
       ELSE /\ previous_frame_end' = "None"
            /\ presented' = [issued |-> TRUE, swapchain |-> swapchain.id,
                             image_index |-> image_index]
            /\ ops' = ops \o SubmitCalls
            /\ pc' = "flush_match"
    /\ UNCHANGED << window, swapchain, render_pass, pipeline, framebuffers,
                    viewport, recreate_swapchain, image_extent, acquire_result,
                    image_index, suboptimal, acquired_from, command_buffer,
                    inner_size, redraw_requested, exiting, gpu, handler,
                    resized_since, minimized_since, resized_before, minimized_before >>

FlushResults == {"Ok", "OutOfDate", "Other"}

\* What the flush match stores in previous_frame_end (main.rs:757-764).
StoredFuture_NoReset(r) == IF r = "Ok" THEN "Fence" ELSE "None"

StoredFuture_KeepsChain(r) == "Fence"

StoredFuture(r) == IF r = "Ok" THEN "Fence" ELSE "Now"

\* match future.map_err(Validated::unwrap) (main.rs:757-769)
FlushMatch(r) ==
    /\ pc = "flush_match"
    /\ CASE r = "Ok" ->
              /\ previous_frame_end' = StoredFuture(r)
              /\ frames_held' = frames_held + 1
              /\ pc' = "idle"
              /\ UNCHANGED << recreate_swapchain, frames_done >>
         [] r = "OutOfDate" ->
              /\ recreate_swapchain' = TRUE
              /\ previous_frame_end' = StoredFuture(r)
              /\ frames_held' = 0
              /\ frames_done' = 0
              /\ pc' = "idle"
         [] OTHER ->
              /\ pc' = "panicked"
              /\ UNCHANGED << recreate_swapchain, previous_frame_end, gpu >>
    /\ UNCHANGED << window, swapchain, render_pass, pipeline, framebuffers,
                    viewport, locals, inner_size, redraw_requested, exiting,
                    observed >>

\* ------------------------------------------------- leaving the event loop

\* event_loop.run_app(&mut app) returns (main.rs:786): exit() has been called
\* and no handler is running.  window_event does not test for the exit
\* request, so until run_app returns the handlers run as before.
RunAppReturns ==
    /\ pc = "idle"
    /\ exiting
    /\ pc' = "drop_app"
    /\ handler' = "main"
    /\ ops' = << >>
    /\ resized_before' = 0
    /\ minimized_before' = FALSE
    /\ image_extent' = << 0, 0 >>
    /\ UnsetLocals
    /\ UNCHANGED << app_fields, inner_size, redraw_requested, exiting, gpu,
                    resized_since, minimized_since >>

\* "Destroying the GpuFuture blocks until the GPU is finished executing it"
\* (main.rs:274-275): a fence future waits for the frames it still holds; a
\* "now" future holds none.
DropBlocked_Never(future) == FALSE

DropBlocked(future) == future = "Fence" /\ frames_done < frames_held

\* main returns and app is dropped (main.rs:784-787), its fields in the order
\* of their declaration (main.rs:50-64).  The fields declared before
\* previous_frame_end are handles (Arc) or plain values: letting go of them
\* destroys nothing the future chain still refers to.  Then previous_frame_end
\* is dropped, which blocks while the GPU works; the objects of the frames are
\* destroyed with it.
DropPreviousFrameEnd ==
    /\ pc = "drop_app"
    /\ ~DropBlocked(previous_frame_end)
    /\ previous_frame_end' = "None"
    /\ pc' = "drop_window"
    /\ UNCHANGED << window, swapchain, render_pass, pipeline, framebuffers,
                    viewport, recreate_swapchain, locals, inner_size,
                    redraw_requested, exiting, gpu, observed >>

\* The fields declared after previous_frame_end: window, swapchain,
\* render_pass, pipeline, framebuffers (main.rs:59-63).
DropWindowAndSwapchain ==
    /\ pc = "drop_window"
    /\ window' = "None"
    /\ swapchain' = NoSwapchain
    /\ render_pass' = "None"
    /\ pipeline' = "None"
    /\ framebuffers' = << >>
    /\ pc' = "done"
    /\ UNCHANGED << viewport, recreate_swapchain, previous_frame_end, locals,
                    inner_size, redraw_requested, exiting, gpu, observed >>

\* ------------------------------------------------------------------- Next
NonZeroExtents == {e \in Extents : ~ContainsZero(e)}

Next ==
    \/ /\ \E size \in NonZeroExtents, m \in 1..MaxSurfaceMinImages, x \in 0..MaxExtraImages :
             resumed(size, SurfaceWith(m), x)
       /\ UNCHANGED aux
    \/ (\E new \in Extents : OsResize(new)) /\ UNCHANGED aux
    \/ GpuFinish /\ UNCHANGED aux
    \/ CloseRequested /\ UNCHANGED aux
    \/ Resized /\ UNCHANGED aux
    \/ about_to_wait /\ UNCHANGED aux
    \/ RedrawRequested /\ UNCHANGED aux
    \/ CleanupFinished /\ UNCHANGED aux
    \/ /\ \E ok \in BOOLEAN, x \in 0..MaxExtraImages : RecreateBranch(ok, x)
       /\ UNCHANGED aux
    \/ (\E r \in AcquireResults(swapchain) : AcquireNextImage(r)) /\ UNCHANGED aux
    \/ RecordCommandBuffer /\ UNCHANGED aux
    \/ SubmitAndPresent /\ UNCHANGED aux
    \/ (\E r \in FlushResults : FlushMatch(r)) /\ UNCHANGED aux
    \/ RunAppReturns /\ UNCHANGED aux
    \/ DropPreviousFrameEnd /\ UNCHANGED aux
    \/ DropWindowAndSwapchain /\ UNCHANGED aux

Spec == Init /\ [][Next]_vars

\* ----------------------------------------------------------- SpecAnyOrder
\* The program under an event loop that may call window_event or about_to_wait
\* before resumed.  Spec's handlers are those of a loop that calls resumed
\* first, as winit does: the window whose events they handle is created there.

\* The handlers that unwrap self.window.
Events == {"CloseRequested", "Resized", "RedrawRequested", "about_to_wait"}

\* A handler that returns when the window is absent.
UnwrapNone_Returns(event) ==
    /\ pc = "idle"
    /\ window = "None"
    /\ handler' = event
    /\ UNCHANGED << app_fields, pc, locals, inner_size, redraw_requested, exiting,
                    gpu, ops, resized_since, resized_before, minimized_since,
                    minimized_before >>

\* self.window.as_ref().unwrap() on None (main.rs:588, 776): the first
\* statement of window_event and of about_to_wait panics.
UnwrapNone(event) ==
    /\ pc = "idle"
    /\ window = "None"
    /\ handler' = event
    /\ pc' = "panicked"
    /\ UNCHANGED << app_fields, locals, inner_size, redraw_requested, exiting,
                    gpu, ops, resized_since, resized_before, minimized_since,
                    minimized_before >>

NextAnyOrder ==
    \/ (\E event \in Events : UnwrapNone(event)) /\ UNCHANGED aux
    \/ /\ \E size \in NonZeroExtents, m \in 1..MaxSurfaceMinImages, x \in 0..MaxExtraImages :
             resumed(size, SurfaceWith(m), x)
       /\ UNCHANGED aux
    \/ (\E new \in Extents : OsResize(new)) /\ UNCHANGED aux
    \/ GpuFinish /\ UNCHANGED aux
    \/ CloseRequested /\ UNCHANGED aux
    \/ Resized /\ UNCHANGED aux
    \/ about_to_wait /\ UNCHANGED aux
    \/ RedrawRequested /\ UNCHANGED aux
    \/ CleanupFinished /\ UNCHANGED aux
    \/ /\ \E ok \in BOOLEAN, x \in 0..MaxExtraImages : RecreateBranch(ok, x)
       /\ UNCHANGED aux
    \/ (\E r \in AcquireResults(swapchain) : AcquireNextImage(r)) /\ UNCHANGED aux
    \/ RecordCommandBuffer /\ UNCHANGED aux
    \/ SubmitAndPresent /\ UNCHANGED aux
    \/ (\E r \in FlushResults : FlushMatch(r)) /\ UNCHANGED aux
    \/ RunAppReturns /\ UNCHANGED aux
    \/ DropPreviousFrameEnd /\ UNCHANGED aux
    \/ DropWindowAndSwapchain /\ UNCHANGED aux

SpecAnyOrder == Init /\ [][NextAnyOrder]_vars

\* The event loop under fair event delivery: event_loop.run_app (main.rs:786)
\* creates the window's events, calls about_to_wait once the pending events
\* are handled and delivers a requested redraw; a handler that was called runs
\* on to its return (or panic), waiting in the acquire at most until the GPU,
\* which keeps working, has finished a frame.  The window may be minimised and
\* restored and CloseRequested may or may not come; Resized events are left
\* out (they only set recreate_swapchain, which a suboptimal or out-of-date
\* frame sets as well).
NextLive ==
    \/ /\ \E size \in NonZeroExtents, m \in 1..MaxSurfaceMinImages, x \in 0..MaxExtraImages :
             resumed(size, SurfaceWith(m), x)
       /\ UNCHANGED aux
    \/ (\E new \in {<< 0, 0 >>, << 1, MaxHeight >>} : OsResize(new)) /\ UNCHANGED aux
    \/ GpuFinish /\ UNCHANGED aux
    \/ CloseRequested /\ UNCHANGED aux
    \/ about_to_wait /\ UNCHANGED aux
    \/ RedrawRequested /\ UNCHANGED aux
    \/ CleanupFinished /\ UNCHANGED aux
    \/ /\ \E ok \in BOOLEAN, x \in 0..MaxExtraImages : RecreateBranch(ok, x)
       /\ UNCHANGED aux
    \/ (\E r \in AcquireResults(swapchain) : AcquireNextImage(r)) /\ UNCHANGED aux
    \/ RecordCommandBuffer /\ UNCHANGED aux
    \/ SubmitAndPresent /\ UNCHANGED aux
    \/ (\E r \in FlushResults : FlushMatch(r)) /\ UNCHANGED aux
    \/ RunAppReturns /\ UNCHANGED aux
    \/ DropPreviousFrameEnd /\ UNCHANGED aux
    \/ DropWindowAndSwapchain /\ UNCHANGED aux

LiveSpec ==
    /\ Init
    /\ [][NextLive]_vars
    /\ WF_vars((\E size \in NonZeroExtents, m \in 1..MaxSurfaceMinImages,
                   x \in 0..MaxExtraImages : resumed(size, SurfaceWith(m), x))
               /\ UNCHANGED aux)
    /\ WF_vars(about_to_wait /\ UNCHANGED aux)
    /\ WF_vars(RedrawRequested /\ UNCHANGED aux)
    /\ WF_vars(CleanupFinished /\ UNCHANGED aux)
    /\ WF_vars((\E ok \in BOOLEAN, x \in 0..MaxExtraImages : RecreateBranch(ok, x))
               /\ UNCHANGED aux)
    /\ WF_vars((\E r \in AcquireResults(swapchain) : AcquireNextImage(r))
               /\ UNCHANGED aux)
    /\ WF_vars(RecordCommandBuffer /\ UNCHANGED aux)
    /\ WF_vars(SubmitAndPresent /\ UNCHANGED aux)
    /\ WF_vars((\E r \in FlushResults : FlushMatch(r)) /\ UNCHANGED aux)
    /\ WF_vars(GpuFinish /\ UNCHANGED aux)

\* ------------------------------------------------------------ SpecSurface
\* The requested image count over the surfaces a driver may have: resumed on a
\* surface reporting any min_image_count from 1 up, then resizes and redraws
\* up to the rebuild, every acquire returning OutOfDate as in SpecRebuild.
\* surface_capabilities keeps what the surface reported.
NextSurface ==
    \/ /\ window = "None"
       /\ \E size \in NonZeroExtents, m \in 1..MaxSurfaceMinImagesSurface,
             x \in 0..MaxExtraImages :
               /\ resumed(size, SurfaceWith(m), x)
               /\ surface_capabilities' = SurfaceWith(m)
       /\ UNCHANGED << first_swapchain, timeline, device_aux >>
    \/ (\E new \in Extents : OsResize(new)) /\ UNCHANGED aux
    \/ Resized /\ UNCHANGED aux
    \/ about_to_wait /\ UNCHANGED aux
    \/ RedrawRequested /\ UNCHANGED aux
    \/ CleanupFinished /\ UNCHANGED aux
    \/ /\ \E ok \in BOOLEAN, x \in 0..MaxExtraImages : RecreateBranch(ok, x)
       /\ UNCHANGED aux
    \/ AcquireNextImage([kind |-> "OutOfDate"]) /\ UNCHANGED aux

SpecSurface == Init /\ [][NextSurface]_vars

\* ------------------------------------------------------------ SpecRebuild
\* The swapchain's configuration over rebuilds: resumed on any surface, then
\* resizes and redraws up to the rebuild.  The steps of a frame after the
\* acquire write neither the swapchain nor the framebuffers; here every
\* acquire returns OutOfDate, which ends the redraw and asks for the next
\* rebuild.  first_swapchain keeps what resumed created.
NextRebuild ==
    \/ /\ window = "None"
       /\ \E size \in NonZeroExtents, surface \in Surfaces,
             x \in 0..MaxExtraImagesRebuild : resumed(size, surface, x)
       /\ first_swapchain' = swapchain'
       /\ UNCHANGED << timeline, device_aux, surface_capabilities >>
    \/ (\E new \in Extents : OsResize(new)) /\ UNCHANGED aux
    \/ Resized /\ UNCHANGED aux
    \/ about_to_wait /\ UNCHANGED aux
    \/ RedrawRequested /\ UNCHANGED aux
    \/ CleanupFinished /\ UNCHANGED aux
    \/ /\ \E ok \in BOOLEAN, x \in 0..MaxExtraImagesRebuild : RecreateBranch(ok, x)
       /\ UNCHANGED aux
    \/ AcquireNextImage([kind |-> "OutOfDate"]) /\ UNCHANGED aux

SpecRebuild == Init /\ [][NextRebuild]_vars

\* ---------------------------------------------------------------- SpecGpu
\* The redraw loop with the GPU's side of the future chain, frame by frame;
\* the window is neither resized nor closed.  timeline[i] is the i-th frame
\* the chain holds; frames_held and frames_done count them as in Spec.

\* The GPU operation each call of the chain queues (main.rs:741-755).
GpuOp(call) ==
    CASE call = "then_execute" -> "execute"
      [] call = "then_swapchain_present" -> "present"
      [] call = "then_signal_fence_and_flush" -> "signal_fence"

\* The GPU operations of the chain the running redraw built, in chain order.
ChainOps ==
    LET calls == SelectSeq(ops, LAMBDA c : c \in {"then_execute", "then_swapchain_present",
                                                   "then_signal_fence_and_flush"})
    IN  [i \in DOMAIN calls |-> GpuOp(calls[i])]

Finished(frame) == frame.todo = << >>
Unfinished(tl) == {i \in DOMAIN tl : ~Finished(tl[i])}

\* Images acquired for a frame whose GPU work is not finished.
BusyImages(tl) == {tl[i].image : i \in Unfinished(tl)}

\* Flushing a chain joined on the fence future of the previous frame waits
\* for that fence: "the CPU may be up to one frame ahead, limited by fence
\* signaling".
FlushBlocked_Never(tl) == FALSE

FlushBlocked(tl) == Unfinished(tl) # {}

\* The frame a successful flush hands to the GPU: acquire_future joined in
\* (main.rs:739), its semaphore not yet signalled.  The future "holds the
\* resources for as long as they are in use by the GPU" (main.rs:272-273): the
\* command buffer, with its framebuffer, and the present of the image.
NewFrame ==
    [image |-> image_index, acquired |-> FALSE, todo |-> ChainOps, done |-> << >>,
     command_buffer |-> command_buffer, presented |-> presented]

\* A cleanup_finished that makes the chain let go of every frame.
CleanupFinishedGpu_ReleasesAll ==
    /\ CleanupFinished
    /\ timeline' = << >>
    /\ UNCHANGED << first_swapchain, device_aux, surface_capabilities >>

\* cleanup_finished (main.rs:612) with the chain's frames.
CleanupFinishedGpu ==
    /\ CleanupFinished
    /\ timeline' = IF pc' = "panicked" THEN timeline
                   ELSE SubSeq(timeline, frames_done + 1, Len(timeline))
    /\ UNCHANGED << first_swapchain, device_aux, surface_capabilities >>

\* acquire_next_image (main.rs:647-648) hands out an image no unfinished
\* frame renders to, and blocks while there is none.
AcquireGpu(r) ==
    /\ r.kind = "Ok" => r.image_index \notin BusyImages(timeline)
    /\ AcquireStep(r)
    /\ UNCHANGED aux

\* then_signal_fence_and_flush and the flush match (main.rs:755-769).
FlushGpu(r) ==
    /\ ~FlushBlocked(timeline)
    /\ FlushMatch(r)
    /\ timeline' = CASE r = "Ok" -> Append(timeline, NewFrame)
                     [] r = "OutOfDate" -> << >>
                     [] OTHER -> timeline
    /\ UNCHANGED << first_swapchain, device_aux, surface_capabilities >>

\* The presentation engine signals the acquire semaphore of frame i.
GpuAcquireSignal(i) ==
    /\ pc # "panicked"
    /\ i \in DOMAIN timeline
    /\ ~timeline[i].acquired
    /\ timeline' = [timeline EXCEPT ![i].acquired = TRUE]
    /\ UNCHANGED << app_fields, pc, locals, inner_size, redraw_requested,
                    exiting, gpu, observed, first_swapchain, device_aux,
                    surface_capabilities >>

\* What the join of main.rs:736-739 makes every operation of frame i wait
\* for: the work of previous_frame_end and the acquire of the frame's image.
JoinDone(tl, i) ==
    /\ tl[i].acquired
    /\ \A j \in 1..(i - 1) : Finished(tl[j])

\* The GPU performs the next operation of frame i; the last one (the fence
\* signal, main.rs:755) finishes the frame.
GpuStep(i) ==
    /\ pc # "panicked"
    /\ i \in DOMAIN timeline
    /\ ~Finished(timeline[i])
    /\ JoinDone(timeline, i)
    /\ timeline' = [timeline EXCEPT ![i].todo = Tail(@),
                                    ![i].done = Append(@, Head(timeline[i].todo))]
    /\ IF Len(timeline[i].todo) = 1
       THEN GpuFinish
       ELSE UNCHANGED << app_fields, pc, locals, inner_size, redraw_requested,
                         exiting, gpu, observed >>
    /\ UNCHANGED << first_swapchain, device_aux, surface_capabilities >>

NextGpu ==
    \/ /\ \E size \in NonZeroExtents, m \in 1..MaxSurfaceMinImages,
             x \in 0..MaxExtraImagesGpu : resumed(size, SurfaceWith(m), x)
       /\ UNCHANGED aux
    \/ about_to_wait /\ UNCHANGED aux
    \/ RedrawRequested /\ UNCHANGED aux
    \/ CleanupFinishedGpu
    \/ /\ \E ok \in BOOLEAN, x \in 0..MaxExtraImagesGpu : RecreateBranch(ok, x)
       /\ UNCHANGED aux
    \/ \E r \in AcquireResults(swapchain) : AcquireGpu(r)
    \/ RecordCommandBuffer /\ UNCHANGED aux
    \/ SubmitAndPresent /\ UNCHANGED aux
    \/ \E r \in FlushResults : FlushGpu(r)
    \/ \E i \in 1..Len(timeline) : GpuAcquireSignal(i)
    \/ \E i \in 1..Len(timeline) : GpuStep(i)

SpecGpu == Init /\ [][NextGpu]_vars

\* ------------------------------------------------------------- SpecDevice
\* The choice of (physical_device, queue_family_index) in App::new
\* (main.rs:115-174).  The iterator chain takes the devices one at a time, in
\* enumeration order, through filter, filter_map and the fold of min_by_key.

DeviceTypes == {"DiscreteGpu", "IntegratedGpu", "VirtualGpu", "Cpu", "Other"}

QueueFamilies == [graphics : BOOLEAN, presentation_support : BOOLEAN]

\* What enumerate_physical_devices can yield: a device with its extensions,
\* its type and its queue families.
PhysicalDevices ==
    [khr_swapchain : BOOLEAN,
     device_type : DeviceTypes,
     queue_family_properties :
        UNION {[1..n -> QueueFamilies] : n \in 0..MaxQueueFamilies}]

\* p.supported_extensions().contains(&device_extensions) (main.rs:118-123)
SupportsExtensions(p) == p.khr_swapchain

\* queue_family_properties().iter().enumerate().position(..)
\* (main.rs:137-148): the 0-based index of the first family the closure
\* accepts, scanning from index i; -1 stands for None.
RECURSIVE PositionFrom(_, _)
PositionFrom(families, i) ==
    IF i >= Len(families) THEN -1
    ELSE IF families[i + 1].graphics /\ families[i + 1].presentation_support THEN i
    ELSE PositionFrom(families, i + 1)

Position(families) == PositionFrom(families, 0)

\* The score of min_by_key's closure (main.rs:162-171).
Score(p) ==
    CASE p.device_type = "DiscreteGpu" -> 0
      [] p.device_type = "IntegratedGpu" -> 1
      [] p.device_type = "VirtualGpu" -> 2
      [] p.device_type = "Cpu" -> 3
      [] p.device_type = "Other" -> 4
      [] OTHER -> 5

\* One step of Iterator::min_by_key: the later element replaces the best
\* only if its key is smaller.
MinByKey_LastMin(best, candidate) ==
    IF best = NoSelection THEN candidate
    ELSE IF Score(candidate.p) <= Score(best.p) THEN candidate
    ELSE best

MinByKey(best, candidate) ==
    IF best = NoSelection THEN candidate
    ELSE IF Score(candidate.p) < Score(best.p) THEN candidate
    ELSE best

\* The device has the swapchain extension and a queue family with graphics
\* and presentation support.
Eligible(p) ==
    /\ p.khr_swapchain
    /\ \E k \in DOMAIN p.queue_family_properties :
          /\ p.queue_family_properties[k].graphics
          /\ p.queue_family_properties[k].presentation_support

\* The enumeration starts (main.rs:115-117).
InitDevice ==
    /\ InitApp
    /\ enumerated = << >>
    /\ selected = NoSelection
    /\ selection = "running"

\* The next device p goes through the chain (main.rs:115-172).
EnumeratePhysicalDevice(p) ==
    /\ selection = "running"
    /\ Len(enumerated) < MaxDevices
    /\ enumerated' = Append(enumerated,
                            [device_type |-> p.device_type, eligible |-> Eligible(p)])
    /\ selected' =
          IF SupportsExtensions(p) /\ Position(p.queue_family_properties) # -1
          THEN MinByKey(selected,
                        [position |-> Len(enumerated) + 1, p |-> p,
                         queue_family_index |-> Position(p.queue_family_properties)])
          ELSE selected
    /\ UNCHANGED << app_fields, pc, locals, inner_size, redraw_requested, exiting,
                    gpu, observed, first_swapchain, timeline, selection,
                    surface_capabilities >>

\* An end of the enumeration that goes on without a device.
ExpectPhysicalDevice_Unchecked ==
    /\ selection = "running"
    /\ selection' = "done"
    /\ UNCHANGED << app_fields, pc, locals, inner_size, redraw_requested, exiting,
                    gpu, observed, first_swapchain, timeline, enumerated, selected,
                    surface_capabilities >>

\* The enumeration ends: .expect("no suitable physical device found")
\* (main.rs:173).
ExpectPhysicalDevice ==
    /\ selection = "running"
    /\ selection' = IF selected = NoSelection THEN "panicked" ELSE "done"
    /\ UNCHANGED << app_fields, pc, locals, inner_size, redraw_requested, exiting,
                    gpu, observed, first_swapchain, timeline, enumerated, selected,
                    surface_capabilities >>

\* App::new has returned and event_loop.run_app(&mut app) calls resumed
\* (main.rs:783-786); a panic in App::new unwinds out of main before the
\* event loop is run.  SpecDevice follows the window up to its creation, on
\* one surface and at one size.
RunApp(size, surface, extra) ==
    /\ selection = "done"
    /\ resumed(size, surface, extra)
    /\ UNCHANGED aux

NextDevice ==
    \/ \E p \in PhysicalDevices : EnumeratePhysicalDevice(p)
    \/ ExpectPhysicalDevice
    \/ RunApp(<< 1, MaxHeight >>, SurfaceWith(1), 0)

SpecDevice == InitDevice /\ [][NextDevice]_vars

\* ----------------------------------------------------------------- claims

InRedraw == handler = "RedrawRequested"
\* The running (or last) handler is a redraw that got past the zero guard.
NonZeroRedraw == InRedraw /\ ~ContainsZero(image_extent)
Submits == Count(ops, "then_execute")
Presents == Count(ops, "then_swapchain_present")
Has(op) == \E i \in DOMAIN ops : ops[i] = op
FramebufferExtents == {framebuffers[i].image.extent : i \in DOMAIN framebuffers}

\* C1 (as stated): every redraw handled with a non-zero inner size has, when
\* it returns, submitted exactly one command buffer and issued exactly one
\* present, whatever the acquire outcome.
C1_AsStated ==
    (pc = "idle" /\ NonZeroRedraw) => (Submits = 1 /\ Presents = 1)

\* C1 (amended): a redraw handled with a non-zero inner size never submits or
\* presents more than once; when it returns it has submitted exactly one
\* command buffer and issued exactly one present if the acquire succeeded,
\* and none if the acquire returned OutOfDate.
C1_OneSubmitPerAcquiredFrame ==
    NonZeroRedraw =>
        /\ Submits <= 1
        /\ Presents <= 1
        /\ pc = "idle" =>
              IF acquire_result = "Ok"
              THEN Submits = 1 /\ Presents = 1
              ELSE acquire_result = "OutOfDate" /\ Submits = 0 /\ Presents = 0

C1_Witness ==
    /\ pc = "idle"
    /\ NonZeroRedraw
    /\ acquire_result = "Ok"
    /\ Submits = 1
    /\ Presents = 1
    /\ recreate_swapchain

\* C2: in the first redraw that gets past the zero guard after a Resized
\* event, once the rebuild step is over, every framebuffer's image extent and
\* the cached viewport extent equal the inner size read in that redraw, and so
\* do the framebuffer and viewport of the command buffer it records.
C2_RedrawAfterResizedUsesWindowSize ==
    (NonZeroRedraw /\ resized_before > 0 /\ pc \notin {"cleanup", "recreate", "panicked"}) =>
        /\ FramebufferExtents = {image_extent}
        /\ viewport.extent = image_extent
        /\ swapchain.image_extent = image_extent
        /\ command_buffer.recorded =>
              /\ command_buffer.framebuffer.image.extent = image_extent
              /\ command_buffer.viewport.extent = image_extent

C2_Witness ==
    /\ NonZeroRedraw
    /\ resized_before > 0
    /\ command_buffer.recorded
    /\ Has("recreate")
    /\ image_extent = << MaxWidth, MaxHeight >>
    /\ command_buffer.viewport.extent = << MaxWidth, MaxHeight >>

\* C3: a redraw whose acquire_next_image returned OutOfDate has returned with
\* RecreateFlag set, having recorded no command buffer and made no submission
\* and no present.
C3_OutOfDateAtAcquireAbortsFrame ==
    acquire_result = "OutOfDate" =>
        /\ pc = "idle"
        /\ recreate_swapchain
        /\ ~command_buffer.recorded
        /\ ~presented.issued
        /\ ~Has("record")
        /\ Submits = 0
        /\ Presents = 0

C3_Witness ==
    /\ acquire_result = "OutOfDate"
    /\ InRedraw
    /\ ops = << "cleanup_finished", "acquire_next_image" >>
    /\ recreate_swapchain

\* C4: between handler invocations previous_frame_end is Some: whenever no
\* handler is running, the future taken at submission has been replaced, after
\* any sequence of handlers and any non-fatal acquire and flush outcome.
C4_PreviousFrameEndPresentBetweenHandlers ==
    pc = "idle" => previous_frame_end # "None"

\* A redraw took the future, the flush returned OutOfDate and the handler
\* returned with a fresh "now" future stored.
C4_Witness ==
    /\ pc = "idle"
    /\ InRedraw
    /\ presented.issued
    /\ previous_frame_end = "Now"

\* C5: a redraw handled while the inner size has a zero dimension returns at
\* once and changes nothing: no call is made and the swapchain, framebuffers,
\* viewport, previous_frame_end, recreate_swapchain and the GPU's frames stay
\* as they were; and a frame is presented only by a redraw whose extent has no
\* zero dimension.
C5_ZeroExtentRedrawIsNoOp ==
    /\ [][(RedrawRequested /\ ContainsZero(inner_size)) =>
              /\ pc' = "idle"
              /\ ops' = << >>
              /\ UNCHANGED << app_fields, gpu >>]_vars
    /\ [](presented.issued => ~ContainsZero(image_extent))
    /\ []((InRedraw /\ ContainsZero(image_extent)) => (pc = "idle" /\ ops = << >>))

\* A zero-extent redraw has returned and RecreateFlag is still set.
C5_Witness ==
    /\ pc = "idle"
    /\ InRedraw
    /\ ContainsZero(image_extent)
    /\ recreate_swapchain
    /\ resized_since > 0

\* No call to recreate follows the acquire in the running handler.
NoRecreateAfterAcquire ==
    \A i, j \in DOMAIN ops :
        (ops[i] = "acquire_next_image" /\ ops[j] = "recreate") => j < i

\* C6: a redraw whose acquire succeeded with suboptimal = true sets
\* RecreateFlag, does not rebuild after the acquire, and when it returns has
\* recorded, submitted and presented its frame on the swapchain it acquired
\* from; RecreateFlag then stays set until a redraw's rebuild step, and a
\* redraw that reaches the rebuild step with RecreateFlag set calls recreate
\* before it acquires (replacing the swapchain when the call succeeds).
C6_SuboptimalRendersThenRebuildsNext ==
    /\ []((InRedraw /\ suboptimal) =>
              /\ recreate_swapchain
              /\ swapchain.id = acquired_from
              /\ NoRecreateAfterAcquire
              /\ pc = "idle" =>
                    /\ command_buffer.recorded
                    /\ presented.issued
                    /\ Submits = 1
                    /\ Presents = 1)
    /\ [][(recreate_swapchain /\ ~recreate_swapchain') =>
              (pc = "recreate" /\ InRedraw /\ swapchain'.id # swapchain.id)]_vars
    /\ [][(pc = "recreate" /\ recreate_swapchain /\ pc' # "recreate") =>
              /\ ops'[Len(ops')] \in {"recreate", "window_size_dependent_setup"}
              /\ pc' = "acquire" => (swapchain'.id # swapchain.id /\ ~recreate_swapchain')]_vars

\* The suboptimal frame was presented and chained, with no rebuild in it.
C6_Witness ==
    /\ pc = "idle"
    /\ InRedraw
    /\ suboptimal
    /\ presented.issued
    /\ previous_frame_end = "Fence"
    /\ recreate_swapchain
    /\ ~Has("recreate")

\* C7: a Resized handler never rebuilds (it leaves swapchain, framebuffers
\* and viewport alone and makes no call); a new swapchain is installed only by
\* resumed or by the rebuild step of a redraw; no redraw calls recreate more
\* than once; and the rebuild leaves RecreateFlag clear, so a burst of Resized
\* events costs one rebuild.
C7_ResizeBurstOneRebuild ==
    /\ [][Resized => (UNCHANGED << swapchain, framebuffers, viewport >> /\ ops' = << >>)]_vars
    /\ [][(swapchain' # swapchain /\ swapchain' # NoSwapchain) =>
              (handler' = "resumed" \/ (pc = "recreate" /\ InRedraw /\ recreate_swapchain))]_vars
    /\ [](Count(ops, "recreate") <= 1)
    /\ [][(pc = "recreate" /\ pc' = "acquire") => ~recreate_swapchain']_vars

\* Two or more Resized events, then one redraw with one rebuild and a frame.
C7_Witness ==
    /\ pc = "idle"
    /\ NonZeroRedraw
    /\ resized_before >= 2
    /\ Count(ops, "recreate") = 1
    /\ presented.issued

\* C8: in every redraw that got past the zero guard, cleanup_finished is the
\* first call made, before any recreate or acquire, also when the redraw
\* later aborts on OutOfDate at acquire.
C8_CleanupFinishedFirst ==
    (NonZeroRedraw /\ pc # "cleanup") =>
        /\ Len(ops) >= 1
        /\ ops[1] = "cleanup_finished"
        /\ Count(ops, "cleanup_finished") = 1

\* A redraw that rebuilt and then aborted on OutOfDate had cleaned up first.
C8_Witness ==
    /\ pc = "idle"
    /\ acquire_result = "OutOfDate"
    /\ Has("recreate")
    /\ ops[1] = "cleanup_finished"

\* C9: when a command buffer is recorded, the cached viewport extent given to
\* set_viewport equals the extent of the current swapchain, which is the one
\* the image was acquired from, and the framebuffer's extent; it is never the
\* initial (0, 0).
C9_ViewportMatchesSwapchainAtRecord ==
    /\ pc = "record" =>
          (viewport.extent = swapchain.image_extent /\ acquired_from = swapchain.id)
    /\ command_buffer.recorded =>
          /\ command_buffer.viewport.extent = swapchain.image_extent
          /\ command_buffer.viewport.extent = command_buffer.framebuffer.image.extent
          /\ command_buffer.viewport.extent # << 0, 0 >>
          /\ acquired_from = swapchain.id

\* A frame recorded on the swapchain made by resumed, never rebuilt.
C9_Witness ==
    /\ command_buffer.recorded
    /\ ~Has("recreate")
    /\ ~recreate_swapchain
    /\ command_buffer.viewport.extent = << MaxWidth, MaxHeight >>

\* C10: once resumed has run there is a swapchain, and framebuffers holds one
\* framebuffer per image of that swapchain, in order, each on that image (same
\* swapchain, same index, same extent).
C10_FramebuffersMatchSwapchain ==
    window = "Some" =>
        /\ swapchain # NoSwapchain
        /\ swapchain.image_count >= 2
        /\ Len(framebuffers) = swapchain.image_count
        /\ \A i \in DOMAIN framebuffers : framebuffers[i].image = Images(swapchain)[i]

\* After a redraw that rebuilt, with the window resized again since: the
\* framebuffers follow the rebuilt swapchain, not the window.
C10_Witness ==
    /\ window = "Some"
    /\ pc = "idle"
    /\ Has("recreate")
    /\ swapchain.id # 0
    /\ Len(framebuffers) = swapchain.image_count
    /\ framebuffers[1].image.swapchain = swapchain.id
    /\ swapchain.image_extent # inner_size

\* C11 (as stated): once CloseRequested has been handled no frame is produced:
\* no handler that runs after it acquires an image, submits a command buffer
\* or presents.
C11_AsStated ==
    exiting =>
        ~(InRedraw /\ (Has("acquire_next_image") \/ Submits > 0 \/ Presents > 0))

\* The flush of the running (or last) redraw returned OutOfDate: the frame
\* was handed to the chain and a "now" future was stored.
FlushWasOutOfDate == presented.issued /\ previous_frame_end = "Now"

\* C12 (as stated): a redraw with a non-zero extent that found RecreateFlag
\* set (and so rebuilt the swapchain) returns with RecreateFlag clear.
C12_AsStated ==
    (pc = "idle" /\ NonZeroRedraw /\ Has("recreate")) => ~recreate_swapchain

\* C12 (amended): RecreateFlag, once set, stays set until the rebuild step of
\* a redraw with a non-zero extent; that step calls recreate before the
\* acquire and either fails (fatal) or replaces the swapchain by one of the
\* extent read in this redraw and clears RecreateFlag; when the redraw
\* returns, RecreateFlag is clear exactly if the acquire succeeded, was not
\* suboptimal and the flush succeeded.
C12_RebuildClearsFlagUntilSetAgain ==
    /\ [][(recreate_swapchain /\ ~recreate_swapchain') =>
              (pc = "recreate" /\ NonZeroRedraw)]_vars
    /\ [][(pc = "recreate" /\ recreate_swapchain /\ pc' # "recreate") =>
              \/ pc' = "panicked" /\ recreate_swapchain' /\ swapchain' = swapchain
              \/ /\ pc' = "acquire"
                 /\ ~recreate_swapchain'
                 /\ swapchain'.id # swapchain.id
                 /\ swapchain'.image_extent = image_extent
                 /\ Count(ops', "recreate") = 1
                 /\ ~(\E i \in DOMAIN ops' : ops'[i] = "acquire_next_image")]_vars
    /\ []((pc = "idle" /\ NonZeroRedraw /\ Has("recreate")) =>
              (recreate_swapchain <=>
                  (acquire_result = "OutOfDate" \/ suboptimal \/ FlushWasOutOfDate)))

\* The rebuilding redraw rendered its frame and left the swapchain Live.
C12_Witness ==
    /\ pc = "idle"
    /\ NonZeroRedraw
    /\ Has("recreate")
    /\ presented.issued
    /\ previous_frame_end = "Fence"
    /\ ~recreate_swapchain

\* The running (or last) redraw is the first one past the zero guard after
\* redraws skipped for a zero extent, with a Resized event handled since the
\* last rebuild (the window system sends one on minimise and on restore).
FirstRedrawAfterRestore == NonZeroRedraw /\ minimized_before /\ resized_before > 0

\* C13 (as stated): the first redraw after a restore has, when it returns,
\* rebuilt the swapchain and rendered a frame: it acquired, submitted and
\* presented.
C13_AsStated ==
    (pc = "idle" /\ FirstRedrawAfterRestore) =>
        /\ Has("recreate")
        /\ Has("acquire_next_image")
        /\ Submits = 1
        /\ Presents = 1

\* C13 (amended): a redraw handled while the extent has a zero dimension makes
\* no call and leaves the swapchain, framebuffers, viewport, RecreateFlag,
\* previous_frame_end and the GPU's frames as they were; the first redraw
\* past the zero guard after a restore rebuilds the swapchain at the size it
\* read before it acquires (a failing recreate is fatal); when it returns it
\* has submitted and presented exactly one frame, on the rebuilt swapchain, if
\* the acquire succeeded, and none, with RecreateFlag set again, if the
\* acquire returned OutOfDate.
C13_MinimizeThenRestore ==
    /\ [][(RedrawRequested /\ ContainsZero(inner_size)) =>
              /\ pc' = "idle"
              /\ ops' = << >>
              /\ minimized_since'
              /\ resized_since' = resized_since
              /\ UNCHANGED << swapchain, framebuffers, viewport, recreate_swapchain,
                              previous_frame_end, frames_held, frames_done >>]_vars
    /\ []((FirstRedrawAfterRestore /\ pc \notin {"cleanup", "recreate", "panicked"}) =>
              /\ Has("recreate")
              /\ NoRecreateAfterAcquire
              /\ swapchain.image_extent = image_extent
              /\ FramebufferExtents = {image_extent})
    /\ []((FirstRedrawAfterRestore /\ pc = "idle") =>
              IF acquire_result = "Ok"
              THEN /\ Submits = 1
                   /\ Presents = 1
                   /\ presented.swapchain = swapchain.id
                   /\ command_buffer.framebuffer.image.extent = image_extent
              ELSE /\ acquire_result = "OutOfDate"
                   /\ Submits = 0
                   /\ Presents = 0
                   /\ recreate_swapchain)

\* Minimised, redraws skipped, restored to the widest size: the first redraw
\* after the restore rebuilt and presented at that size.
C13_Witness ==
    /\ pc = "idle"
    /\ FirstRedrawAfterRestore
    /\ Has("recreate")
    /\ presented.issued
    /\ swapchain.image_extent = << MaxWidth, MaxHeight >>
    /\ ~recreate_swapchain

\* C14: when the application is destroyed after CloseRequested, the window,
\* swapchain, framebuffers and frame resources are released only once every
\* submitted frame has finished on the GPU: the drop of previous_frame_end
\* comes first and waits, also when the close came with a frame in flight.
C14_DestructionAwaitsPreviousFrameEnd ==
    /\ pc \in {"drop_window", "done"} =>
          (frames_done = frames_held /\ previous_frame_end = "None")
    /\ pc = "drop_app" =>
          (window = "Some" /\ swapchain # NoSwapchain /\ framebuffers # << >>)
    /\ pc \in {"drop_app", "drop_window", "done"} => exiting

\* The loop ended with a frame held by previous_frame_end; its drop is over
\* and the window is about to go.
C14_Witness ==
    /\ pc = "drop_window"
    /\ handler = "main"
    /\ frames_held > 0
    /\ frames_done = frames_held
    /\ window = "Some"

\* C20: the flush match of a redraw that reached submission stores, on success,
\* the fence future of the frame just submitted (one more frame held, the
\* RecreateFlag untouched) and, on OutOfDate, sets RecreateFlag and stores a
\* fresh "now" future that holds no frame; in both cases the handler returns
\* and the program keeps running (only another error is fatal).
C20_FlushOutcomes ==
    /\ [][FlushMatch("Ok") =>
              /\ Submits = 1
              /\ previous_frame_end = "None"
              /\ previous_frame_end' = "Fence"
              /\ frames_held' = frames_held + 1
              /\ recreate_swapchain' = recreate_swapchain
              /\ pc' = "idle"]_vars
    /\ [][FlushMatch("OutOfDate") =>
              /\ Submits = 1
              /\ previous_frame_end = "None"
              /\ previous_frame_end' = "Now"
              /\ frames_held' = 0
              /\ recreate_swapchain'
              /\ pc' = "idle"]_vars
    /\ [][(pc = "flush_match" /\ pc' = "panicked") => FlushMatch("Other")]_vars
    /\ [](previous_frame_end = "Now" => frames_held = 0)

\* A redraw rebuilt the swapchain and submitted, and the flush returned
\* OutOfDate: the flag is set again, nothing is held, the loop goes on.
C20_Witness ==
    /\ pc = "idle"
    /\ ~exiting
    /\ Has("recreate")
    /\ FlushWasOutOfDate
    /\ recreate_swapchain
    /\ frames_held = 0

\* The create-info a swapchain was made from (SwapchainCreateInfo).
CreateInfo(sc) ==
    [min_image_count |-> sc.min_image_count, image_format |-> sc.image_format,
     image_extent |-> sc.image_extent, image_usage |-> sc.image_usage,
     composite_alpha |-> sc.composite_alpha]

\* C15 (as stated): a swapchain rebuilt at the extent the first one had is
\* equivalent to it: same extent, format, image count, usage and composite
\* alpha, with as many framebuffers.
C15_AsStated ==
    (pc = "acquire" /\ Has("recreate")
        /\ swapchain.image_extent = first_swapchain.image_extent) =>
        /\ CreateInfo(swapchain) = CreateInfo(first_swapchain)
        /\ swapchain.image_count = first_swapchain.image_count
        /\ Len(framebuffers) = first_swapchain.image_count

\* C15 (amended): a rebuild keeps the create-info of the swapchain it
\* replaces but for image_extent, which becomes the extent the redraw read, so
\* every swapchain has the min_image_count, format, usage and composite alpha
\* of the first one, and the whole create-info of the first one whenever it
\* has its extent; the framebuffers are one per image the driver returned, of
\* the swapchain's format and extent, and at least min_image_count many; how
\* many is the driver's choice at each rebuild.
C15_RebuildKeepsCreateInfo ==
    /\ [][(pc = "recreate" /\ swapchain' # swapchain) =>
              /\ CreateInfo(swapchain') = [CreateInfo(swapchain) EXCEPT !.image_extent = image_extent]
              /\ (image_extent = swapchain.image_extent =>
                      CreateInfo(swapchain') = CreateInfo(swapchain))
              /\ swapchain'.image_count >= swapchain'.min_image_count
              /\ Len(framebuffers') = swapchain'.image_count
              /\ \A i \in DOMAIN framebuffers' :
                    /\ framebuffers'[i].image.format = swapchain.image_format
                    /\ framebuffers'[i].image.extent = image_extent]_vars
    /\ [](swapchain # NoSwapchain =>
              /\ CreateInfo(swapchain) = [CreateInfo(first_swapchain) EXCEPT
                                              !.image_extent = swapchain.image_extent]
              /\ (swapchain.image_extent = first_swapchain.image_extent =>
                      CreateInfo(swapchain) = CreateInfo(first_swapchain)))

\* A swapchain with the second format and a non-opaque composite alpha was
\* rebuilt at the extent of the first one: the create-info is that of the
\* first one, the number of images is not.
C15_Witness ==
    /\ pc = "acquire"
    /\ Has("recreate")
    /\ swapchain.image_extent = first_swapchain.image_extent
    /\ CreateInfo(swapchain) = CreateInfo(first_swapchain)
    /\ swapchain.composite_alpha = "PreMultiplied"
    /\ swapchain.image_format = "B8G8R8A8_SRGB"
    /\ swapchain.image_count # first_swapchain.image_count
    /\ Len(framebuffers) = swapchain.image_count

C17_FrameOrder == << "execute", "present", "signal_fence" >>

C18_ClassRank(type) ==
    CHOOSE r \in 1..5 :
        << "DiscreteGpu", "IntegratedGpu", "VirtualGpu", "Cpu", "Other" >>[r] = type

C18_EligiblePositions == {k \in DOMAIN enumerated : enumerated[k].eligible}

\* C18: when the selection ends, it fails exactly if no enumerated device has
\* the swapchain extension and a queue family with graphics and presentation
\* support; otherwise the chosen device is one of those, none of them has a
\* lower class rank, none of the same rank was enumerated earlier, and the
\* chosen queue family is the lowest-indexed one of the chosen device with
\* graphics and presentation support.
C18_DeviceSelection ==
    /\ selection = "panicked" => C18_EligiblePositions = {}
    /\ selection = "done" =>
          /\ selected.position \in C18_EligiblePositions
          /\ selected.p.device_type = enumerated[selected.position].device_type
          /\ \A k \in C18_EligiblePositions :
                /\ C18_ClassRank(selected.p.device_type)
                      <= C18_ClassRank(enumerated[k].device_type)
                /\ (enumerated[k].device_type = selected.p.device_type)
                      => selected.position <= k
          /\ LET f == selected.p.queue_family_properties
                 i == selected.queue_family_index
             IN  /\ i + 1 \in DOMAIN f
                 /\ f[i + 1].graphics /\ f[i + 1].presentation_support
                 /\ \A j \in 1..i : ~(f[j].graphics /\ f[j].presentation_support)

\* Two eligible integrated GPUs: the first enumerated is chosen, with its
\* second queue family (the first one cannot present).
C18_Witness ==
    /\ selection = "done"
    /\ Len(enumerated) = 2
    /\ C18_EligiblePositions = {1, 2}
    /\ enumerated[1].device_type = "IntegratedGpu"
    /\ enumerated[2].device_type = "IntegratedGpu"
    /\ selected.position = 1
    /\ selected.queue_family_index = 1
    /\ selected.p.queue_family_properties[1].graphics

\* C19: about_to_wait always leaves a redraw requested; a requested redraw is
\* handled unless the loop has ended first; and unless CloseRequested is
\* handled or the program panics, RedrawRequested is handled again and again,
\* each handler returning: rendering does not wait for any other event.
C19_ContinuousRedraw ==
    /\ [][about_to_wait => redraw_requested']_vars
    /\ (redraw_requested /\ window = "Some")
          ~> (~redraw_requested \/ pc \in {"panicked", "drop_app", "drop_window", "done"})
    /\ \/ []<>(<<RedrawRequested>>_vars)
       \/ <>(exiting \/ pc = "panicked")
    /\ \/ []<>(pc = "idle" /\ handler = "RedrawRequested")
       \/ <>(exiting \/ pc = "panicked")

\* With a frame rendered before and the window open, about_to_wait has just
\* requested the next redraw.
C19_Witness ==
    /\ pc = "idle"
    /\ handler = "about_to_wait"
    /\ redraw_requested
    /\ ~exiting
    /\ previous_frame_end = "Fence"
    /\ frames_held > 0

\* C21: an acquire or a flush that fails with an error other than OutOfDate
\* panics in that handler, and after a panic nothing happens any more: no
\* handler runs, nothing is submitted, the GPU's frames are not observed.
\* OutOfDate returns from the handler and a successful (also suboptimal)
\* acquire goes on to record the frame.
C21_OtherErrorsAreFatal ==
    /\ [][pc # "panicked"]_vars
    /\ [][(pc = "acquire" /\ acquire_result' = "Other") => pc' = "panicked"]_vars
    /\ [][(pc = "acquire" /\ acquire_result' = "OutOfDate") => pc' = "idle"]_vars
    /\ [][(pc = "acquire" /\ acquire_result' = "Ok") => pc' = "record"]_vars
    /\ [][FlushMatch("Other") => pc' = "panicked"]_vars
    /\ [][(pc = "flush_match" /\ pc' \notin {"flush_match", "panicked"}) =>
              (pc' = "idle" /\ (FlushMatch("Ok") \/ FlushMatch("OutOfDate")))]_vars
    /\ [](pc = "panicked" /\ acquire_result = "Other" => (Submits = 0 /\ Presents = 0))

\* The acquire failed with another error while a frame was still held: the
\* handler panicked before recording anything.
C21_Witness ==
    /\ pc = "panicked"
    /\ acquire_result = "Other"
    /\ ~command_buffer.recorded
    /\ frames_held > 0

\* C22: in a redraw with a non-zero extent and RecreateFlag set, the rebuild
\* step comes before the acquire: it recreates the swapchain with the previous
\* create-info changed only in image_extent (the window size the redraw read),
\* replaces the framebuffers and the viewport extent together from the new
\* images and clears RecreateFlag.  So RecreateFlag is false whenever an image
\* is about to be acquired, and every acquire is made on the swapchain the
\* redraw holds after its rebuild step.
C22_RebuildBeforeAcquire ==
    /\ [](pc = "acquire" =>
              /\ ~recreate_swapchain
              /\ NonZeroRedraw
              /\ ~Has("acquire_next_image")
              /\ FramebufferExtents = {swapchain.image_extent}
              /\ viewport.extent = swapchain.image_extent)
    /\ [][(pc = "recreate" /\ recreate_swapchain /\ pc' = "acquire") =>
              /\ CreateInfo(swapchain') =
                     [CreateInfo(swapchain) EXCEPT !.image_extent = image_extent]
              /\ swapchain'.id # swapchain.id
              /\ framebuffers' = FramebuffersOf(Images(swapchain'))
              /\ viewport'.extent = image_extent
              /\ ~recreate_swapchain']_vars
    /\ [][(pc = "recreate" /\ ~recreate_swapchain /\ pc' # "recreate") =>
              (pc' = "acquire" /\ UNCHANGED << swapchain, framebuffers, viewport >>)]_vars
    /\ [][(pc' = "acquire" /\ pc # "acquire") => pc = "recreate"]_vars
    /\ [][(pc = "acquire" /\ pc' # "acquire") =>
              (acquired_from' = swapchain.id /\ swapchain' = swapchain)]_vars
    /\ []((InRedraw /\ Has("acquire_next_image")) =>
              (acquired_from = swapchain.id /\ NoRecreateAfterAcquire))

\* An image was acquired on a swapchain rebuilt in the same redraw at the
\* largest extent, after a Resized event had set the flag.
C22_Witness ==
    /\ NonZeroRedraw
    /\ resized_before > 0
    /\ Has("recreate")
    /\ Has("acquire_next_image")
    /\ acquire_result = "Ok"
    /\ acquired_from = swapchain.id
    /\ swapchain.id # 0
    /\ swapchain.image_extent = << MaxWidth, MaxHeight >>
    /\ ~recreate_swapchain

\* C23: RecreateFlag starts false.  It goes from false to true only in a
\* Resized handler, at an acquire that returned OutOfDate, at an acquire that
\* succeeded with suboptimal = true, or at a flush that returned OutOfDate; it
\* goes from true to false only in the rebuild step of a redraw, when recreate
\* succeeded and the swapchain was replaced.
C23_FlagTransitions ==
    /\ ~recreate_swapchain
    /\ [][(~recreate_swapchain /\ recreate_swapchain') =>
              \/ pc = "idle" /\ pc' = "idle" /\ handler' = "Resized"
              \/ /\ pc = "acquire"
                 /\ InRedraw
                 /\ \/ acquire_result' = "OutOfDate" /\ pc' = "idle"
                    \/ acquire_result' = "Ok" /\ suboptimal' /\ pc' = "record"
              \/ /\ pc = "flush_match"
                 /\ InRedraw
                 /\ pc' = "idle"
                 /\ previous_frame_end' = "Now"]_vars
    /\ [][(recreate_swapchain /\ ~recreate_swapchain') =>
              /\ pc = "recreate"
              /\ InRedraw
              /\ pc' = "acquire"
              /\ swapchain'.id # swapchain.id
              /\ ops' = ops \o << "recreate", "window_size_dependent_setup" >>]_vars

\* A redraw cleared the flag by its rebuild and set it again at the flush:
\* no Resized since, acquire Ok and not suboptimal.
C23_Witness ==
    /\ pc = "idle"
    /\ NonZeroRedraw
    /\ Has("recreate")
    /\ acquire_result = "Ok"
    /\ ~suboptimal
    /\ FlushWasOutOfDate
    /\ resized_since = 0
    /\ recreate_swapchain

\* C24: handling a Resized event sets RecreateFlag and does nothing else: the
\* handler makes no call (no recreate, acquire, recording, submission or
\* present) and leaves the swapchain, the framebuffers, the viewport,
\* PreviousFrameEnd and the frames it holds as they were.
C24_ResizedOnlySetsFlag ==
    /\ [](handler = "Resized" =>
              /\ pc = "idle"
              /\ recreate_swapchain
              /\ ops = << >>
              /\ ~command_buffer.recorded
              /\ ~presented.issued
              /\ acquire_result = "none")
    /\ [][handler' = "Resized" =>
              UNCHANGED << window, swapchain, render_pass, pipeline, framebuffers,
                           viewport, previous_frame_end, frames_held,
                           redraw_requested, exiting >>]_vars

\* A Resized handled while a frame is in flight and the window no longer has
\* the swapchain's extent: the swapchain and the chain are as the last redraw
\* left them.
C24_Witness ==
    /\ handler = "Resized"
    /\ recreate_swapchain
    /\ previous_frame_end = "Fence"
    /\ frames_done < frames_held
    /\ swapchain.image_extent # inner_size
    /\ FramebufferExtents = {swapchain.image_extent}
    /\ viewport.extent = swapchain.image_extent

\* The swapchains whose images the unfinished frames of tl render to or
\* present.
C25_InUse(tl) ==
    {tl[i].command_buffer.framebuffer.image.swapchain : i \in Unfinished(tl)}
    \cup {tl[i].presented.swapchain : i \in Unfinished(tl)}

\* Frame f is one of the frames tl holds.
C25_Holds(tl, f) ==
    \E j \in DOMAIN tl :
        /\ tl[j].image = f.image
        /\ tl[j].command_buffer = f.command_buffer
        /\ tl[j].presented = f.presented

C26_Max(a, b) == IF a >= b THEN a ELSE b

\* C26: the swapchain resumed creates has min_image_count =
\* max(2, surface.min_image_count) for every value the surface reports, 1
\* included, so at least 2 images are requested and at least 2 exist; every
\* rebuild keeps that min_image_count.
C26_MinImageCount ==
    /\ [](window = "Some" =>
              /\ surface_capabilities.min_image_count >= 1
              /\ swapchain.min_image_count =
                     C26_Max(2, surface_capabilities.min_image_count)
              /\ swapchain.min_image_count >= 2
              /\ swapchain.min_image_count >= surface_capabilities.min_image_count
              /\ swapchain.image_count >= swapchain.min_image_count
              /\ Len(framebuffers) >= 2)
    /\ [][(pc = "recreate" /\ swapchain' # swapchain) =>
              swapchain'.min_image_count = swapchain.min_image_count]_vars

\* On a surface that reports min_image_count = 1: two images requested, and
\* still two after a rebuild at another extent.
C26_Witness ==
    /\ surface_capabilities.min_image_count = 1
    /\ Has("recreate")
    /\ swapchain.id # 0
    /\ swapchain.min_image_count = 2
    /\ swapchain.image_extent = << MaxWidth, MaxHeight >>

\* C27: when the enumeration has ended and no enumerated device has both the
\* swapchain extension and a queue family with graphics and presentation
\* support, App::new has panicked; after that panic there is no window, no
\* swapchain, no framebuffer and no frame, in any later state: resumed runs
\* only after a device was selected.
C27_NoDeviceIsFatal ==
    /\ []((selection # "running" /\ C18_EligiblePositions = {}) =>
              selection = "panicked")
    /\ [](selection = "panicked" =>
              /\ selected = NoSelection
              /\ window = "None"
              /\ swapchain = NoSwapchain
              /\ framebuffers = << >>
              /\ frames_held = 0
              /\ ops = << >>
              /\ ~presented.issued)
    /\ [][selection = "panicked" => selection' = "panicked"]_vars
    /\ [][(window = "None" /\ window' = "Some") =>
              (selection = "done" /\ C18_EligiblePositions # {})]_vars

\* Two devices were enumerated, neither eligible: construction has failed.
C27_Witness ==
    /\ selection = "panicked"
    /\ Len(enumerated) = MaxDevices
    /\ C18_EligiblePositions = {}
    /\ window = "None"
    /\ swapchain = NoSwapchain

\* C28: when a frame is about to be recorded, the acquired image index is a
\* valid index into the current framebuffers and that framebuffer is on the
\* image with that index of the swapchain the image was acquired from, which
\* is the current one; the recorded command buffer uses that framebuffer, and
\* the present names the same swapchain and the same index.  No framebuffer of
\* a replaced swapchain is used.
C28_FramebufferOfAcquiredImage ==
    /\ pc = "record" =>
          /\ acquire_result = "Ok"
          /\ acquired_from = swapchain.id
          /\ image_index \in 0..(Len(framebuffers) - 1)
          /\ framebuffers[image_index + 1].image = Images(swapchain)[image_index + 1]
          /\ framebuffers[image_index + 1].image.index = image_index
    /\ command_buffer.recorded =>
          /\ command_buffer.framebuffer = framebuffers[image_index + 1]
          /\ command_buffer.framebuffer.image.swapchain = acquired_from
          /\ command_buffer.framebuffer.image.index = image_index
          /\ command_buffer.framebuffer.image.extent = swapchain.image_extent
    /\ presented.issued =>
          /\ command_buffer.recorded
          /\ presented.swapchain = acquired_from
          /\ presented.swapchain = command_buffer.framebuffer.image.swapchain
          /\ presented.image_index = image_index
          /\ presented.image_index = command_buffer.framebuffer.image.index

\* A frame on the second image of a swapchain rebuilt in the same redraw:
\* recorded on the new swapchain's framebuffer and presented there.
C28_Witness ==
    /\ Has("recreate")
    /\ presented.issued
    /\ image_index = 1
    /\ swapchain.id # 0
    /\ command_buffer.framebuffer.image.swapchain = swapchain.id
    /\ presented.swapchain = swapchain.id
    /\ presented.image_index = 1

\* C30: a redraw that aborts on OutOfDate at acquire leaves previous_frame_end
\* as it was: the future is neither taken nor replaced and keeps the frames it
\* held, so the next frame submitted is chained on it.  previous_frame_end is
\* written only when a frame is submitted (taken), by the flush match and at
\* destruction; a fresh "now" future is stored only by the OutOfDate arm of the
\* flush match; the chain lets go of frames only in cleanup_finished (finished
\* frames) and in that arm.
C30_AcquireOutOfDateKeepsChain ==
    /\ [][(pc = "acquire" /\ acquire_result' = "OutOfDate") =>
              /\ pc' = "idle"
              /\ previous_frame_end # "None"
              /\ UNCHANGED << previous_frame_end, frames_held, frames_done >>]_vars
    /\ [](acquire_result = "OutOfDate" =>
              (previous_frame_end # "None" /\ ~Has("then_execute")))
    /\ [][previous_frame_end' # previous_frame_end =>
              pc \in {"submit", "flush_match", "drop_app"}]_vars
    /\ [][(previous_frame_end' = "Now" /\ previous_frame_end # "Now") =>
              /\ pc = "flush_match"
              /\ Submits = 1
              /\ acquire_result = "Ok"
              /\ recreate_swapchain']_vars
    /\ [][frames_held' < frames_held =>
              \/ pc = "cleanup" /\ frames_held' - frames_done' = frames_held - frames_done
              \/ pc = "flush_match" /\ previous_frame_end' = "Now"]_vars

\* A redraw aborted on OutOfDate at acquire with the fence future of an
\* earlier frame still stored, holding that frame.
C30_Witness ==
    /\ pc = "idle"
    /\ InRedraw
    /\ acquire_result = "OutOfDate"
    /\ previous_frame_end = "Fence"
    /\ frames_held > 0
    /\ ~presented.issued

\* The four fields resumed initialises are Some.
C29_Present ==
    /\ window = "Some"
    /\ swapchain # NoSwapchain
    /\ render_pass = "Some"
    /\ pipeline = "Some"

\* C29: resumed leaves window, swapchain, render_pass and pipeline present,
\* and no handler makes any of them absent again: they stay present until the
\* App is dropped after the event loop.  So no unwrap fails once resumed has
\* run: a panic with the window present comes from a failed recreate, acquire
\* or flush.  A window event or about_to_wait handled before resumed panics on
\* its first unwrap, with nothing created.
C29_LateInitialisedFields ==
    /\ []((window = "Some" \/ swapchain # NoSwapchain
             \/ render_pass = "Some" \/ pipeline = "Some") => C29_Present)
    /\ [][handler' = "resumed" => C29_Present']_vars
    /\ [][(C29_Present /\ ~C29_Present') => pc = "drop_window"]_vars
    /\ []((pc = "panicked" /\ window = "Some") =>
              \/ ops[Len(ops)] = "recreate"
              \/ acquire_result = "Other"
              \/ presented.issued /\ previous_frame_end = "None")
    /\ []((pc = "panicked" /\ window = "None") =>
              (handler \in Events /\ ops = << >> /\ ~C29_Present))
    /\ [][(pc = "idle" /\ window = "None" /\ handler' \in Events) =>
              (pc' = "panicked" /\ UNCHANGED app_fields)]_vars
    /\ [][(pc = "idle" /\ handler' \in Events /\ pc' # "panicked") => C29_Present]_vars

\* about_to_wait was called before resumed and panicked.
C29_Witness ==
    /\ pc = "panicked"
    /\ window = "None"
    /\ handler = "about_to_wait"
    /\ swapchain = NoSwapchain
    /\ ~redraw_requested

====
